---- MODULE Spec2Model ----
(***************************************************************************)
(* Task Timer (task_timer.py): a to-do list with a fixed five-minute       *)
(* reminder countdown.  The model covers MainWindow's task list, the rows  *)
(* of the list widget, the countdown (seconds_left and the QTimer `tick`), *)
(* the counter and timer labels, the tasks.json file, the window (shown or *)
(* hidden in the tray), the notifications and the process.                 *)
(***************************************************************************)
EXTENDS Integers, Sequences, FiniteSets, TLC

REMINDER_SECONDS == 300

\* created_at of every Task made in this session: the dataclass default is
\* evaluated once, when the class is defined.
ImportTime == 1
\* created_at of the entries of a file written by an earlier session.
EarlierTime == 0

\* Bounds of the model.
MaxId == 3         \* Task objects constructed in one behaviour of Spec
MaxLoad == 1       \* entries of the file found at startup
RunMaxId == 2      \* Task objects constructed in one behaviour of SpecRun
AppMaxId == 2      \* Task objects constructed in one behaviour of SpecApp
IoMaxId == 1       \* Task objects constructed in one behaviour of SpecIO

VARIABLES
    tasks,          \* self.tasks: sequence of Task (id stands for object identity)
    rows,           \* self.list: the task each TaskItem row refers to
    seconds_left,   \* self.seconds_left
    active,         \* self.tick.isActive()
    count_label,    \* self.count_label: <<pending, total>>
    timer_label,    \* self.timer_label: <<minutes, seconds>>
    file,           \* tasks.json
    nextId,         \* identity of the next Task object constructed
    last,           \* the handler that ran last, its input and what it emitted
    win,            \* observer: the run of ticks since the mutation that opened it
    proc,           \* the process: "running", or "quit" after QApplication.quit()
    hidden,         \* self.isHidden()
    eff             \* what the last handler did outside the task list and the timer

prog == <<tasks, rows, seconds_left, active, count_label, timer_label, file, nextId>>
vars == <<tasks, rows, seconds_left, active, count_label, timer_label, file, nextId,
          last, win, proc, hidden, eff>>

----------------------------------------------------------------------------
\* Input texts and str.strip()

\* What the user may have typed into the input field (sequences of characters).
Texts == {<<>>, <<" ">>, <<"a">>, <<" ", "a", " ">>}

RECURSIVE lstrip(_)
lstrip(s) == IF s # <<>> /\ Head(s) = " " THEN lstrip(Tail(s)) ELSE s

RECURSIVE rstrip(_)
rstrip(s) ==
    IF s # <<>> /\ s[Len(s)] = " " THEN rstrip(SubSeq(s, 1, Len(s) - 1)) ELSE s

strip(s) == rstrip(lstrip(s))

Titles == {strip(s) : s \in Texts} \ {<<>>}

----------------------------------------------------------------------------
\* Task and the task list

Task(i, title) == [id |-> i, title |-> title, done |-> FALSE, created_at |-> ImportTime]

has_pending(ts) == \E k \in 1..Len(ts) : ~ts[k].done

RECURSIVE remaining(_)
remaining(ts) ==
    IF ts = <<>> THEN 0
    ELSE (IF Head(ts).done THEN 0 ELSE 1) + remaining(Tail(ts))

update_counter(ts) == <<remaining(ts), Len(ts)>>

refresh_list(ts) == [k \in 1..Len(ts) |-> ts[k].id]

render_timer(s) == <<s \div 60, s % 60>>

----------------------------------------------------------------------------
\* Persistence

asdict(t) == [title |-> t.title, done |-> t.done, created_at |-> t.created_at]

Missing == [kind |-> "missing"]
Malformed == [kind |-> "malformed"]
Json(ts) == [kind |-> "json", data |-> [k \in 1..Len(ts) |-> asdict(ts[k])]]

SaveOutcomes == {"ok", "open_failed", "write_failed"}

\* save_tasks that dumps the pending tasks only
save_tasks_pending_only(ts, outcome, f) ==
    CASE outcome = "ok" -> Json(SelectSeq(ts, LAMBDA t : ~t.done))
      [] outcome = "open_failed" -> f
      [] OTHER -> Malformed

\* save_tasks: open(SAVE_FILE, "w") truncates the file, json.dump writes it;
\* every exception is swallowed.
save_tasks(ts, outcome, f) ==
    CASE outcome = "ok" -> Json(ts)
      [] outcome = "open_failed" -> f
      [] OTHER -> Malformed

Fields == {"title", "done", "created_at"}

\* Task(**t) that tolerates keys that are no field of Task
accepted_any_key(t) == "title" \in DOMAIN t

\* Task(**t) raises TypeError unless t has a title and only fields of Task.
accepted(t) == "title" \in DOMAIN t /\ DOMAIN t \subseteq Fields

\* Task(**t) that reads the title only
from_entry_title_only(k, t) ==
    [id |-> k, title |-> t.title, done |-> FALSE, created_at |-> ImportTime]

\* Task(**t): done and created_at take their defaults when t leaves them out.
from_entry(k, t) ==
    [id |-> k,
     title |-> t.title,
     done |-> IF "done" \in DOMAIN t THEN t.done ELSE FALSE,
     created_at |-> IF "created_at" \in DOMAIN t THEN t.created_at ELSE ImportTime]

\* load_tasks: a missing file leaves the list empty; json.load or one
\* Task(**t) raising empties it (the list comprehension assigns nothing).
load_tasks(f) ==
    IF f.kind = "json" /\ \A k \in 1..Len(f.data) : accepted(f.data[k])
    THEN [k \in 1..Len(f.data) |-> from_entry(k, f.data[k])]
    ELSE <<>>

\* Entries of the file found at startup: written by save_tasks, or with the
\* title only, or without a title, or with a key that Task does not have.
Entries ==
    [title : Titles, done : BOOLEAN, created_at : {EarlierTime}]
        \cup [title : Titles]
        \cup {[done |-> FALSE]}
        \cup [title : Titles, note : Titles]
FilesUpTo(n) ==
    {Missing, Malformed}
        \cup {[kind |-> "json", data |-> d] : d \in UNION {[1..k -> Entries] : k \in 0..n}}

----------------------------------------------------------------------------
\* Timer / reminder

\* reset_or_start without tick.stop() in the branch with nothing pending
reset_or_start_never_stops(ts, start_if_any, act, secs) ==
    IF has_pending(ts)
    THEN IF start_if_any \/ ~act
         THEN [active |-> TRUE, seconds_left |-> REMINDER_SECONDS]
         ELSE [active |-> act, seconds_left |-> secs]
    ELSE [active |-> act, seconds_left |-> REMINDER_SECONDS]

\* reset_or_start that ignores start_if_any: it only starts a stopped timer
reset_or_start_only_if_stopped(ts, start_if_any, act, secs) ==
    IF has_pending(ts)
    THEN IF ~act
         THEN [active |-> TRUE, seconds_left |-> REMINDER_SECONDS]
         ELSE [active |-> act, seconds_left |-> secs]
    ELSE [active |-> FALSE, seconds_left |-> REMINDER_SECONDS]

\* reset_or_start that stops the timer without resetting the countdown
reset_or_start_stop_only(ts, start_if_any, act, secs) ==
    IF has_pending(ts)
    THEN IF start_if_any \/ ~act
         THEN [active |-> TRUE, seconds_left |-> REMINDER_SECONDS]
         ELSE [active |-> act, seconds_left |-> secs]
    ELSE [active |-> FALSE, seconds_left |-> secs]

\* reset_or_start that restarts the countdown whenever a task is pending
reset_or_start_always_restarts(ts, start_if_any, act, secs) ==
    IF has_pending(ts)
    THEN [active |-> TRUE, seconds_left |-> REMINDER_SECONDS]
    ELSE [active |-> FALSE, seconds_left |-> REMINDER_SECONDS]

\* reset_or_start: the countdown after re-evaluation, as [active, seconds_left]
reset_or_start(ts, start_if_any, act, secs) ==
    IF has_pending(ts)
    THEN IF start_if_any \/ ~act
         THEN [active |-> TRUE, seconds_left |-> REMINDER_SECONDS]
         ELSE [active |-> act, seconds_left |-> secs]
    ELSE [active |-> FALSE, seconds_left |-> REMINDER_SECONDS]

RECURSIVE pending_titles(_)
pending_titles(ts) ==
    IF ts = <<>> THEN <<>>
    ELSE (IF Head(ts).done THEN <<>> ELSE <<Head(ts).title>>) \o pending_titles(Tail(ts))

\* fire_reminder: whether a reminder is delivered
fire_reminder(ts) == pending_titles(ts) # <<>>

TopShown == 5      \* `more` counts the pending tasks past the fifth

\* The body of the reminder, as the pieces of text it is made of: the fixed
\* sentence and, past five pending tasks, the suffix with their number.
reminder_body(ts) ==
    LET pending == pending_titles(ts)
    IN  <<"You have pending tasks! Stay focused">>
            \o (IF Len(pending) > TopShown
                THEN <<"\n...and ", ToString(Len(pending) - TopShown), " more">>
                ELSE <<>>)

\* show_toast(threaded=True) either shows the toast, or the import, the
\* constructor or the call raises in on_tick's thread ("raised"), or the
\* toast fails in the thread it started ("lost": nothing reaches the except).
ToastOutcomes == {"shown", "raised", "lost"}

\* The try/except of fire_reminder: what became of the toast, and the
\* notification that reaches the user.  tray_available is
\* QSystemTrayIcon.isSystemTrayAvailable().
show_reminder(ts, toast, tray_available) ==
    IF toast = "shown"
    THEN [toast |-> toast, channel |-> "toast", title |-> "Task Reminder",
          body |-> reminder_body(ts)]
    ELSE IF toast = "raised" /\ tray_available
    THEN [toast |-> toast, channel |-> "tray", title |-> "Task Reminder",
          body |-> reminder_body(ts)]
    ELSE [toast |-> toast, channel |-> "none", title |-> "", body |-> <<>>]

\* last: op is the handler; row and text are its input; fired tells whether it
\* delivered a reminder; len, was and dup describe the state it started in:
\* the length of the task list, the timer ("idle", running at "full"
\* REMINDER_SECONDS or "mid" countdown), whether another task had the field
\* values of the task acted on.
NoEvent == [op |-> "init", row |-> 0, text |-> <<>>, fired |-> FALSE,
            len |-> 0, was |-> "idle", dup |-> FALSE]

----------------------------------------------------------------------------
\* MainWindow.__init__

StartWith(f) ==
    LET ts == load_tasks(f)
        r == reset_or_start(ts, FALSE, FALSE, REMINDER_SECONDS)
    IN  /\ file = f
        /\ tasks = ts
        /\ rows = refresh_list(ts)
        /\ count_label = update_counter(ts)
        /\ seconds_left = r.seconds_left
        /\ active = r.active
        /\ timer_label = render_timer(r.seconds_left)
        /\ nextId = Len(ts) + 1
        /\ last = NoEvent
        /\ proc = "running"
        /\ hidden = FALSE

\* win: the observed run of ticks: the operation that opened it (by), whether
\* the countdown was running below REMINDER_SECONDS when it did (mid),
\* seconds_left when it opened (start), the ticks handled and the reminders
\* delivered since.
NoWin == [on |-> FALSE, by |-> "none", mid |-> FALSE, start |-> 0, ticks |-> 0, fires |-> 0]

\* eff: the outcome of the handler's write of the file ("none": no write),
\* whether it rebuilt the rows of the list, the notification it showed.
NoNotice == [toast |-> "none", channel |-> "none", title |-> "", body |-> <<>>]
Effect(w, r, n) == [write |-> w, rebuilt |-> r, notice |-> n]

Init == /\ \E f \in FilesUpTo(MaxLoad) : StartWith(f)
        /\ win = NoWin
        /\ eff = Effect("none", TRUE, NoNotice)

----------------------------------------------------------------------------
\* Handlers

\* same_value(ts, ref): some other task of ts has the field values of the task ref
same_value(ts, ref) ==
    \E j, k \in 1..Len(ts) :
        /\ ts[j].id = ref
        /\ k # j
        /\ asdict(ts[k]) = asdict(ts[j])

timer_was ==
    IF ~active THEN "idle"
    ELSE IF seconds_left < REMINDER_SECONDS THEN "mid" ELSE "full"

\* add_task that tests the text for emptiness before stripping it
add_task_checks_raw(text, outcome) ==
    LET title == strip(text) IN
    IF text = <<>>
    THEN /\ UNCHANGED prog
         /\ last' = [NoEvent EXCEPT !.op = "add", !.text = text,
                                    !.len = Len(tasks), !.was = timer_was]
    ELSE LET ts == Append(tasks, Task(nextId, title))
             r == reset_or_start(ts, TRUE, active, seconds_left)
         IN  /\ tasks' = ts
             /\ nextId' = nextId + 1
             /\ file' = save_tasks(ts, outcome, file)
             /\ rows' = refresh_list(ts)
             /\ count_label' = update_counter(ts)
             /\ seconds_left' = r.seconds_left
             /\ active' = r.active
             /\ timer_label' = render_timer(r.seconds_left)
             /\ last' = [NoEvent EXCEPT !.op = "add", !.text = text,
                                        !.len = Len(tasks), !.was = timer_was]

\* add_task whose save_tasks lets the exception of a failed write out: the
\* handler ends after the append and the attempt to write
add_task_write_error_escapes(text, outcome) ==
    LET title == strip(text) IN
    IF title = <<>>
    THEN /\ UNCHANGED prog
         /\ last' = [NoEvent EXCEPT !.op = "add", !.text = text,
                                    !.len = Len(tasks), !.was = timer_was]
    ELSE LET ts == Append(tasks, Task(nextId, title))
             r == reset_or_start(ts, TRUE, active, seconds_left)
             aborted == outcome # "ok"
         IN  /\ tasks' = ts
             /\ nextId' = nextId + 1
             /\ file' = save_tasks(ts, outcome, file)
             /\ rows' = IF aborted THEN rows ELSE refresh_list(ts)
             /\ count_label' = IF aborted THEN count_label ELSE update_counter(ts)
             /\ seconds_left' = IF aborted THEN seconds_left ELSE r.seconds_left
             /\ active' = IF aborted THEN active ELSE r.active
             /\ timer_label' = IF aborted THEN timer_label
                               ELSE render_timer(r.seconds_left)
             /\ last' = [NoEvent EXCEPT !.op = "add", !.text = text,
                                        !.len = Len(tasks), !.was = timer_was]

\* add_task: self.input.text() is `text`
add_task(text, outcome) ==
    LET title == strip(text) IN
    IF title = <<>>
    THEN /\ UNCHANGED prog
         /\ last' = [NoEvent EXCEPT !.op = "add", !.text = text,
                                    !.len = Len(tasks), !.was = timer_was]
    ELSE LET ts == Append(tasks, Task(nextId, title))
             r == reset_or_start(ts, TRUE, active, seconds_left)
         IN  /\ tasks' = ts
             /\ nextId' = nextId + 1
             /\ file' = save_tasks(ts, outcome, file)
             /\ rows' = refresh_list(ts)
             /\ count_label' = update_counter(ts)
             /\ seconds_left' = r.seconds_left
             /\ active' = r.active
             /\ timer_label' = render_timer(r.seconds_left)
             /\ last' = [NoEvent EXCEPT !.op = "add", !.text = text,
                                        !.len = Len(tasks), !.was = timer_was]

\* toggle_task that flips every task equal (==) to the row's task
toggle_task_by_value(i, outcome) ==
    LET ref == rows[i]
        target == CHOOSE t \in {tasks[k] : k \in 1..Len(tasks)} : t.id = ref
        ts == [k \in 1..Len(tasks) |->
                 IF asdict(tasks[k]) = asdict(target)
                 THEN [tasks[k] EXCEPT !.done = ~tasks[k].done]
                 ELSE tasks[k]]
        r == reset_or_start(ts, FALSE, active, seconds_left)
    IN  /\ tasks' = ts
        /\ file' = save_tasks(ts, outcome, file)
        /\ count_label' = update_counter(ts)
        /\ seconds_left' = r.seconds_left
        /\ active' = r.active
        /\ timer_label' = render_timer(r.seconds_left)
        /\ UNCHANGED <<rows, nextId>>
        /\ last' = [NoEvent EXCEPT !.op = "toggle", !.row = i,
                                   !.len = Len(tasks),
                                   !.dup = same_value(tasks, ref),
                                   !.was = timer_was]

\* TaskItem.toggle -> toggle_task: the row's checkbox changed state
toggle_task(i, outcome) ==
    LET ref == rows[i]
        ts == [k \in 1..Len(tasks) |->
                 IF tasks[k].id = ref
                 THEN [tasks[k] EXCEPT !.done = ~tasks[k].done]
                 ELSE tasks[k]]
        r == reset_or_start(ts, FALSE, active, seconds_left)
    IN  /\ tasks' = ts
        /\ file' = save_tasks(ts, outcome, file)
        /\ count_label' = update_counter(ts)
        /\ seconds_left' = r.seconds_left
        /\ active' = r.active
        /\ timer_label' = render_timer(r.seconds_left)
        /\ UNCHANGED <<rows, nextId>>
        /\ last' = [NoEvent EXCEPT !.op = "toggle", !.row = i,
                                   !.len = Len(tasks),
                                   !.dup = same_value(tasks, ref),
                                   !.was = timer_was]

\* remove_task that filters with != (field equality) instead of `is not`
remove_task_by_value(i, outcome) ==
    LET ref == rows[i]
        target == CHOOSE t \in {tasks[k] : k \in 1..Len(tasks)} : t.id = ref
        ts == SelectSeq(tasks, LAMBDA t : asdict(t) # asdict(target))
        r == reset_or_start(ts, FALSE, active, seconds_left)
    IN  /\ tasks' = ts
        /\ file' = save_tasks(ts, outcome, file)
        /\ rows' = refresh_list(ts)
        /\ count_label' = update_counter(ts)
        /\ seconds_left' = r.seconds_left
        /\ active' = r.active
        /\ timer_label' = render_timer(r.seconds_left)
        /\ UNCHANGED nextId
        /\ last' = [NoEvent EXCEPT !.op = "remove", !.row = i,
                                   !.len = Len(tasks),
                                   !.dup = same_value(tasks, ref),
                                   !.was = timer_was]

\* remove_task without self.refresh_list()
remove_task_keeps_rows(i, outcome) ==
    LET ref == rows[i]
        ts == SelectSeq(tasks, LAMBDA t : t.id # ref)
        r == reset_or_start(ts, FALSE, active, seconds_left)
    IN  /\ tasks' = ts
        /\ file' = save_tasks(ts, outcome, file)
        /\ count_label' = update_counter(ts)
        /\ seconds_left' = r.seconds_left
        /\ active' = r.active
        /\ timer_label' = render_timer(r.seconds_left)
        /\ UNCHANGED <<rows, nextId>>
        /\ last' = [NoEvent EXCEPT !.op = "remove", !.row = i,
                                   !.len = Len(tasks),
                                   !.dup = same_value(tasks, ref),
                                   !.was = timer_was]

\* TaskItem.remove -> remove_task: the row's remove button was clicked
remove_task(i, outcome) ==
    LET ref == rows[i]
        ts == SelectSeq(tasks, LAMBDA t : t.id # ref)
        r == reset_or_start(ts, FALSE, active, seconds_left)
    IN  /\ tasks' = ts
        /\ file' = save_tasks(ts, outcome, file)
        /\ rows' = refresh_list(ts)
        /\ count_label' = update_counter(ts)
        /\ seconds_left' = r.seconds_left
        /\ active' = r.active
        /\ timer_label' = render_timer(r.seconds_left)
        /\ UNCHANGED nextId
        /\ last' = [NoEvent EXCEPT !.op = "remove", !.row = i,
                                   !.len = Len(tasks),
                                   !.dup = same_value(tasks, ref),
                                   !.was = timer_was]

\* clear_done with the filter inverted: it keeps the done tasks
clear_done_keeps_done(outcome) ==
    LET ts == SelectSeq(tasks, LAMBDA t : t.done)
        r == reset_or_start(ts, FALSE, active, seconds_left)
    IN  /\ tasks' = ts
        /\ file' = save_tasks(ts, outcome, file)
        /\ rows' = refresh_list(ts)
        /\ count_label' = update_counter(ts)
        /\ seconds_left' = r.seconds_left
        /\ active' = r.active
        /\ timer_label' = render_timer(r.seconds_left)
        /\ UNCHANGED nextId
        /\ last' = [NoEvent EXCEPT !.op = "clear_done", !.len = Len(tasks),
                                   !.was = timer_was]

clear_done(outcome) ==
    LET ts == SelectSeq(tasks, LAMBDA t : ~t.done)
        r == reset_or_start(ts, FALSE, active, seconds_left)
    IN  /\ tasks' = ts
        /\ file' = save_tasks(ts, outcome, file)
        /\ rows' = refresh_list(ts)
        /\ count_label' = update_counter(ts)
        /\ seconds_left' = r.seconds_left
        /\ active' = r.active
        /\ timer_label' = render_timer(r.seconds_left)
        /\ UNCHANGED nextId
        /\ last' = [NoEvent EXCEPT !.op = "clear_done", !.len = Len(tasks),
                                   !.was = timer_was]

\* on_tick that decrements before it looks for pending tasks
on_tick_decrement_first ==
    LET s == seconds_left - 1
        fire == s <= 0
        s2 == IF fire THEN REMINDER_SECONDS ELSE s
    IN  IF ~has_pending(tasks)
        THEN /\ active' = FALSE
             /\ seconds_left' = s2
             /\ timer_label' = render_timer(s2)
             /\ UNCHANGED <<tasks, rows, count_label, file, nextId>>
             /\ last' = [NoEvent EXCEPT !.op = "tick", !.len = Len(tasks),
                                    !.was = timer_was]
        ELSE /\ seconds_left' = s2
             /\ timer_label' = render_timer(s2)
             /\ UNCHANGED <<tasks, rows, active, count_label, file, nextId>>
             /\ last' = [NoEvent EXCEPT !.op = "tick", !.len = Len(tasks),
                                        !.was = timer_was,
                                        !.fired = fire /\ fire_reminder(tasks)]

\* on_tick that delivers the reminder only below zero
on_tick_fire_below_zero ==
    IF ~has_pending(tasks)
    THEN /\ active' = FALSE
         /\ seconds_left' = REMINDER_SECONDS
         /\ timer_label' = render_timer(REMINDER_SECONDS)
         /\ UNCHANGED <<tasks, rows, count_label, file, nextId>>
         /\ last' = [NoEvent EXCEPT !.op = "tick", !.len = Len(tasks),
                                    !.was = timer_was]
    ELSE LET s == seconds_left - 1
             fire == s < 0
             s2 == IF fire THEN REMINDER_SECONDS ELSE s
         IN  /\ seconds_left' = s2
             /\ timer_label' = render_timer(s2)
             /\ UNCHANGED <<tasks, rows, active, count_label, file, nextId>>
             /\ last' = [NoEvent EXCEPT !.op = "tick", !.len = Len(tasks),
                                        !.was = timer_was,
                                        !.fired = fire /\ fire_reminder(tasks)]

\* on_tick that delivers the reminder and keeps counting down
on_tick_no_reset ==
    IF ~has_pending(tasks)
    THEN /\ active' = FALSE
         /\ seconds_left' = REMINDER_SECONDS
         /\ timer_label' = render_timer(REMINDER_SECONDS)
         /\ UNCHANGED <<tasks, rows, count_label, file, nextId>>
         /\ last' = [NoEvent EXCEPT !.op = "tick", !.len = Len(tasks),
                                    !.was = timer_was]
    ELSE LET s == seconds_left - 1
             fire == s <= 0
         IN  /\ seconds_left' = s
             /\ timer_label' = render_timer(s)
             /\ UNCHANGED <<tasks, rows, active, count_label, file, nextId>>
             /\ last' = [NoEvent EXCEPT !.op = "tick", !.len = Len(tasks),
                                        !.was = timer_was,
                                        !.fired = fire /\ fire_reminder(tasks)]

\* on_tick that stops the timer when it delivers the reminder
on_tick_stops_on_fire ==
    IF ~has_pending(tasks)
    THEN /\ active' = FALSE
         /\ seconds_left' = REMINDER_SECONDS
         /\ timer_label' = render_timer(REMINDER_SECONDS)
         /\ UNCHANGED <<tasks, rows, count_label, file, nextId>>
         /\ last' = [NoEvent EXCEPT !.op = "tick", !.len = Len(tasks),
                                    !.was = timer_was]
    ELSE LET s == seconds_left - 1
             fire == s <= 0
             s2 == IF fire THEN REMINDER_SECONDS ELSE s
         IN  /\ seconds_left' = s2
             /\ active' = ~fire
             /\ timer_label' = render_timer(s2)
             /\ UNCHANGED <<tasks, rows, count_label, file, nextId>>
             /\ last' = [NoEvent EXCEPT !.op = "tick", !.len = Len(tasks),
                                        !.was = timer_was,
                                        !.fired = fire /\ fire_reminder(tasks)]

\* on_tick: the slot of tick.timeout.  The pending check comes first; a
\* timeout handled with nothing pending stops the timer.
on_tick ==
    IF ~has_pending(tasks)
    THEN /\ active' = FALSE
         /\ seconds_left' = REMINDER_SECONDS
         /\ timer_label' = render_timer(REMINDER_SECONDS)
         /\ UNCHANGED <<tasks, rows, count_label, file, nextId>>
         /\ last' = [NoEvent EXCEPT !.op = "tick", !.len = Len(tasks),
                                    !.was = timer_was]
    ELSE LET s == seconds_left - 1
             fire == s <= 0
             s2 == IF fire THEN REMINDER_SECONDS ELSE s
         IN  /\ seconds_left' = s2
             /\ timer_label' = render_timer(s2)
             /\ UNCHANGED <<tasks, rows, active, count_label, file, nextId>>
             /\ last' = [NoEvent EXCEPT !.op = "tick", !.len = Len(tasks),
                                        !.was = timer_was,
                                        !.fired = fire /\ fire_reminder(tasks)]

----------------------------------------------------------------------------
\* Handlers of the window and of the tray icon.  None of them touches the
\* task list or the countdown; quit_app writes the file.

APP_NAME == "Task Timer"

\* closeEvent that accepts the close request
closeEvent_accepts ==
    /\ hidden' = TRUE
    /\ proc' = "quit"
    /\ eff' = Effect("none", FALSE, NoNotice)
    /\ UNCHANGED prog
    /\ last' = [NoEvent EXCEPT !.op = "close", !.len = Len(tasks), !.was = timer_was]

\* closeEvent: the close request is ignored, the window hides, the tray
\* icon says so.
closeEvent ==
    /\ hidden' = TRUE
    /\ eff' = Effect("none", FALSE,
                     [toast |-> "none", channel |-> "tray", title |-> APP_NAME,
                      body |-> <<"Still running in the tray.">>])
    /\ UNCHANGED <<prog, proc>>
    /\ last' = [NoEvent EXCEPT !.op = "close", !.len = Len(tasks), !.was = timer_was]

ActivationReasons == {"Trigger", "DoubleClick", "Context"}

\* on_tray_activated: a click on the tray icon shows a hidden window and
\* hides a shown one; other activations do nothing.
on_tray_activated(reason) ==
    /\ hidden' = IF reason = "Trigger" THEN ~hidden ELSE hidden
    /\ eff' = Effect("none", FALSE, NoNotice)
    /\ UNCHANGED <<prog, proc>>
    /\ last' = [NoEvent EXCEPT !.op = "tray", !.len = Len(tasks), !.was = timer_was]

\* show_window: "Show" of the tray menu
show_window ==
    /\ hidden' = FALSE
    /\ eff' = Effect("none", FALSE, NoNotice)
    /\ UNCHANGED <<prog, proc>>
    /\ last' = [NoEvent EXCEPT !.op = "show", !.len = Len(tasks), !.was = timer_was]

\* quit_app: "Quit" of the tray menu: save_tasks, then QApplication.quit()
quit_app(outcome) ==
    /\ file' = save_tasks(tasks, outcome, file)
    /\ proc' = "quit"
    /\ eff' = Effect(outcome, FALSE, NoNotice)
    /\ UNCHANGED <<tasks, rows, seconds_left, active, count_label, timer_label,
                   nextId, hidden>>
    /\ last' = [NoEvent EXCEPT !.op = "quit", !.len = Len(tasks), !.was = timer_was]

----------------------------------------------------------------------------
\* Observer of runs of ticks.  A mutation whose operation is in `openers`,
\* that leaves a task pending and the countdown at a watched value opens a
\* run; any other mutation closes it; an add of a blank text is no mutation.

WatchedStarts == {1, 120, REMINDER_SECONDS - 1, REMINDER_SECONDS}

Mutated == last'.op \in {"toggle", "remove", "clear_done"}
              \/ (last'.op = "add" /\ nextId' # nextId)

Observe(openers) ==
    win' = IF Mutated
           THEN IF /\ last'.op \in openers
                   /\ has_pending(tasks')
                   /\ seconds_left' \in WatchedStarts
                THEN [on |-> TRUE, by |-> last'.op, mid |-> last'.was = "mid",
                      start |-> seconds_left', ticks |-> 0, fires |-> 0]
                ELSE NoWin
           ELSE IF last'.op = "tick"
           THEN IF win.on /\ win.ticks < REMINDER_SECONDS
                THEN [win EXCEPT !.ticks = @ + 1,
                                 !.fires = @ + (IF last'.fired THEN 1 ELSE 0)]
                ELSE NoWin
           ELSE win

----------------------------------------------------------------------------
\* User events and timeouts, for a behaviour that constructs at most maxId
\* Task objects, whose writes end in one of `outcomes`, observed by `openers`.

\* The widgets of the window take input while the window is shown.
Shown == proc = "running" /\ ~hidden

\* The handlers that end with self.refresh_list().
calls_refresh_list == {"add", "remove", "clear_done"}

\* What a handler of a mutation did besides the mutation: the outcome of its
\* save_tasks and whether it rebuilt the rows.
Mutation(o) ==
    /\ eff' = IF Mutated
              THEN Effect(o, last'.op \in calls_refresh_list, NoNotice)
              ELSE Effect("none", FALSE, NoNotice)
    /\ UNCHANGED <<proc, hidden>>

Add(maxId, outcomes, openers) ==
    \E text \in Texts, o \in outcomes :
        /\ Shown
        /\ strip(text) # <<>> => nextId <= maxId
        /\ add_task(text, o)
        /\ Observe(openers)
        /\ Mutation(o)

Toggle(outcomes, openers) ==
    \E i \in 1..Len(rows), o \in outcomes :
        Shown /\ toggle_task(i, o) /\ Observe(openers) /\ Mutation(o)

Remove(outcomes, openers) ==
    \E i \in 1..Len(rows), o \in outcomes :
        Shown /\ remove_task(i, o) /\ Observe(openers) /\ Mutation(o)

Clear(outcomes, openers) ==
    \E o \in outcomes :
        Shown /\ clear_done(o) /\ Observe(openers) /\ Mutation(o)

\* on_tick is the slot of tick.timeout.  It is taken in any state of the
\* running process: a timeout handled while the timer is stopped finds
\* nothing pending and leaves the window as it was, so this adds no state of
\* the program.  A tick that fires calls fire_reminder.
Timeout(openers) ==
    /\ proc = "running"
    /\ on_tick
    /\ Observe(openers)
    /\ IF last'.fired
       THEN \E toast \in ToastOutcomes, tray_available \in BOOLEAN :
               eff' = Effect("none", FALSE, show_reminder(tasks', toast, tray_available))
       ELSE eff' = Effect("none", FALSE, NoNotice)
    /\ UNCHANGED <<proc, hidden>>

\* The window's close button, and the events of the tray icon and its menu.
Close == Shown /\ closeEvent /\ win' = win

TrayActivated ==
    \E reason \in ActivationReasons :
        proc = "running" /\ on_tray_activated(reason) /\ win' = win

Show == proc = "running" /\ show_window /\ win' = win

Quit(outcomes) ==
    \E o \in outcomes : proc = "running" /\ quit_app(o) /\ win' = win

----------------------------------------------------------------------------
\* Spec: the application started on any file, then user events and timeouts
\* in any order; every write succeeds; no run of ticks is observed.

Written == {"ok"}

AddTask == Add(MaxId, Written, {})
ToggleTask == Toggle(Written, {})
RemoveTask == Remove(Written, {})
ClearDone == Clear(Written, {})
Tick == Timeout({})

Next == AddTask \/ ToggleTask \/ RemoveTask \/ ClearDone \/ Tick

Spec == Init /\ [][Next]_vars

\* SpecRun: the same application with fewer tasks; the run of ticks after
\* each mutation is observed.

Mutations == {"add", "toggle", "remove", "clear_done"}

RunAddTask == Add(RunMaxId, Written, Mutations)
RunToggleTask == Toggle(Written, Mutations)
RunRemoveTask == Remove(Written, Mutations)
RunClearDone == Clear(Written, Mutations)
RunTick == Timeout(Mutations)

NextRun == RunAddTask \/ RunToggleTask \/ RunRemoveTask \/ RunClearDone \/ RunTick

SpecRun == Init /\ [][NextRun]_vars

\* SpecApp: the application with its window closed to the tray and shown
\* again, and Quit; every write succeeds.

AppAddTask == Add(AppMaxId, Written, {})
AppToggleTask == Toggle(Written, {})
AppRemoveTask == Remove(Written, {})
AppClearDone == Clear(Written, {})
AppTick == Timeout({})
AppQuit == Quit(Written)

NextApp ==
    \/ AppAddTask \/ AppToggleTask \/ AppRemoveTask \/ AppClearDone \/ AppTick
    \/ Close \/ TrayActivated \/ Show \/ AppQuit

SpecApp == Init /\ [][NextApp]_vars

\* SpecIO: the application of Spec with Quit, and writes of the file that fail.

IoAddTask == Add(IoMaxId, SaveOutcomes, {})
IoToggleTask == Toggle(SaveOutcomes, {})
IoRemoveTask == Remove(SaveOutcomes, {})
IoClearDone == Clear(SaveOutcomes, {})
IoTick == Timeout({})
IoQuit == Quit(SaveOutcomes)

NextIO ==
    \/ IoAddTask \/ IoToggleTask \/ IoRemoveTask \/ IoClearDone \/ IoTick \/ IoQuit

SpecIO == Init /\ [][NextIO]_vars

----------------------------------------------------------------------------
\* Properties

IsBlank(text) == \A k \in 1..Len(text) : text[k] = " "

NonBlankAdd == last.op = "add" /\ ~IsBlank(last.text)

\* C1: in every state reached from startup by add, toggle, remove, clear_done
\* and tick events, the timer is running if and only if some task is not done.
C1_RunningIffPending == active <=> has_pending(tasks)

\* A toggle has just marked the only pending task done while others remain listed.
C1_Witness ==
    /\ last.op = "toggle"
    /\ last.was = "mid"
    /\ Len(tasks) >= 2
    /\ ~has_pending(tasks)
    /\ ~active

\* C2: after an add of a non-blank text seconds_left is 300 and the timer is
\* running, whatever the countdown was before; there is one countdown, so
\* with no further mutation the first reminder after the add is delivered by
\* the 300th tick and by no earlier one.
C2_AddRestarts ==
    /\ NonBlankAdd => (seconds_left = REMINDER_SECONDS /\ active)
    /\ (win.on /\ win.by = "add" /\ last.op = "tick") =>
           /\ last.fired <=> (win.ticks = REMINDER_SECONDS)
           /\ win.fires = (IF win.ticks = REMINDER_SECONDS THEN 1 ELSE 0)

\* An add made while the countdown was running below 300, followed by 300 ticks.
C2_Witness ==
    /\ win.on
    /\ win.by = "add"
    /\ win.mid
    /\ win.ticks = REMINDER_SECONDS
    /\ last.op = "tick"
    /\ last.fired

\* C3: a tick handled while no task is pending leaves the timer stopped and
\* seconds_left at 300, does not decrement seconds_left and delivers no reminder.
C3_IdleTick ==
    [][(last'.op = "tick" /\ ~has_pending(tasks)) =>
          /\ ~active'
          /\ seconds_left' = REMINDER_SECONDS
          /\ seconds_left' >= seconds_left
          /\ ~last'.fired
          /\ tasks' = tasks]_vars

\* A tick has been handled with tasks listed and none of them pending.
C3_Witness ==
    /\ last.op = "tick"
    /\ tasks # <<>>
    /\ ~has_pending(tasks)
    /\ ~active
    /\ seconds_left = REMINDER_SECONDS

\* C4 as stated: 300 consecutive ticks with a task pending throughout and no
\* mutation in between deliver exactly one reminder and leave seconds_left at 300.
C4_AsStated ==
    (win.on /\ win.ticks = REMINDER_SECONDS) =>
        (win.fires = 1 /\ seconds_left = REMINDER_SECONDS)

\* C4, amended: 300 consecutive ticks with a task pending throughout and no
\* mutation in between deliver exactly one reminder and leave seconds_left at
\* the value it had before the first of them; in a run that starts at 300 no
\* tick before the 300th delivers a reminder.
C4_RunOf300 ==
    /\ (win.on /\ win.ticks = REMINDER_SECONDS) =>
           (win.fires = 1 /\ seconds_left = win.start)
    /\ (win.on /\ win.start = REMINDER_SECONDS /\ win.ticks < REMINDER_SECONDS) =>
           win.fires = 0

\* 300 ticks have been handled in a run that started with 120 seconds left.
C4_Witness ==
    /\ win.on
    /\ win.start = 120
    /\ win.ticks = REMINDER_SECONDS
    /\ last.op = "tick"

\* C5: seconds_left is an integer between 0 and 300 in every reachable state.
C5_SecondsInRange == seconds_left \in 0..REMINDER_SECONDS

\* A tick has just delivered a reminder and put the countdown back to 300.
C5_Witness ==
    /\ last.op = "tick"
    /\ last.fired
    /\ seconds_left = REMINDER_SECONDS

\* C6: whenever the timer is not running seconds_left is 300, and every step
\* that starts the stopped timer leaves seconds_left at 300.
C6_IdleAtFull ==
    /\ ~active => seconds_left = REMINDER_SECONDS
    /\ (last.was = "idle" /\ active) => seconds_left = REMINDER_SECONDS

\* A mutation made while the countdown was running below 300 left nothing pending.
C6_Witness ==
    /\ last.op \in {"toggle", "remove", "clear_done"}
    /\ last.was = "mid"
    /\ ~active

\* C7: an add of a text that is blank after trimming changes neither the task
\* list nor seconds_left nor the running flag nor the file; any other add
\* appends one task that is not done and leaves the tasks before it as they were.
C7_Add ==
    [][last'.op = "add" =>
          IF IsBlank(last'.text)
          THEN UNCHANGED <<tasks, seconds_left, active, file>>
          ELSE /\ Len(tasks') = Len(tasks) + 1
               /\ SubSeq(tasks', 1, Len(tasks)) = tasks
               /\ ~tasks'[Len(tasks')].done]_vars

\* A text of spaces only was added while the countdown was running below 300.
C7_Witness ==
    /\ last.op = "add"
    /\ last.text # <<>>
    /\ IsBlank(last.text)
    /\ last.was = "mid"
    /\ seconds_left < REMINDER_SECONDS

WithoutIndex(ts, i) == SubSeq(ts, 1, i - 1) \o SubSeq(ts, i + 1, Len(ts))

\* C8: remove deletes the task of the row acted on and no other, also when
\* another task has the same title and done flag; the rest keep their order.
C8_Remove ==
    [][last'.op = "remove" =>
          /\ last'.row \in 1..Len(tasks)
          /\ tasks' = WithoutIndex(tasks, last'.row)]_vars

\* The first of three tasks was removed while another task had its field values.
C8_Witness ==
    /\ last.op = "remove"
    /\ last.dup
    /\ last.row = 1
    /\ last.len = 3
    /\ Len(tasks) = 2

\* IsSubSeq(s, t): s is t with some elements left out
IsSubSeq(s, t) ==
    \E f \in [1..Len(s) -> 1..Len(t)] :
        /\ \A j, k \in 1..Len(s) : j < k => f[j] < f[k]
        /\ \A j \in 1..Len(s) : s[j] = t[f[j]]

\* C9: after clear_done the list is the previously pending tasks in their
\* previous order: no task left is done, the list is the old one with elements
\* left out, the pending count is unchanged and equals the total.
C9_ClearDone ==
    [][last'.op = "clear_done" =>
          /\ \A k \in 1..Len(tasks') : ~tasks'[k].done
          /\ IsSubSeq(tasks', tasks)
          /\ remaining(tasks') = remaining(tasks)
          /\ Len(tasks') = remaining(tasks')
          /\ count_label' = <<remaining(tasks), remaining(tasks)>>]_vars

\* clear_done took one done task out of three and left two pending ones.
C9_Witness ==
    /\ last.op = "clear_done"
    /\ last.len = 3
    /\ Len(tasks) = 2

\* C10: toggle flips done of the task of the row acted on and changes nothing
\* else in the task list; no step changes the title of a task.
C10_Toggle ==
    [][/\ last'.op = "toggle" =>
            /\ last'.row \in 1..Len(tasks)
            /\ tasks' = [tasks EXCEPT ![last'.row].done = ~tasks[last'.row].done]
       /\ \A j \in 1..Len(tasks), k \in 1..Len(tasks') :
            tasks[j].id = tasks'[k].id => tasks[j].title = tasks'[k].title]_vars

\* A task was toggled while another task had its field values.
C10_Witness ==
    /\ last.op = "toggle"
    /\ last.dup
    /\ Len(tasks) >= 2

\* The {title, done} pairs of a list of tasks or of entries, in order.
pairs(ts) == [k \in 1..Len(ts) |-> [title |-> ts[k].title, done |-> ts[k].done]]

\* C11: after a mutation or a quit whose write succeeded the file holds the
\* in-memory list: same length, same order, same title and done per task.
C11_FileHoldsList ==
    (last.op \in Mutations \cup {"quit"} /\ eff.write = "ok") =>
        /\ file.kind = "json"
        /\ Len(file.data) = Len(tasks)
        /\ pairs(file.data) = pairs(tasks)

\* A toggle has just been written; the list holds a done and a pending task.
C11_Witness ==
    /\ last.op = "toggle"
    /\ eff.write = "ok"
    /\ Len(tasks) = 2
    /\ tasks[1].done # tasks[2].done
    /\ file = Json(tasks)

\* C12: saving any reachable task list and loading what was saved gives the
\* same {title, done} pairs in the same order, and no saved entry (its
\* timestamp included) makes the load fail.
C12_RoundTrip ==
    LET saved == save_tasks(tasks, "ok", file)
    IN  /\ saved.kind = "json"
        /\ \A k \in 1..Len(saved.data) : accepted(saved.data[k])
        /\ Len(load_tasks(saved)) = Len(tasks)
        /\ pairs(load_tasks(saved)) = pairs(tasks)

\* The saved list holds a done task loaded with the timestamp of an earlier
\* session and a pending task created in this one.
C12_Witness ==
    /\ file = Json(tasks)
    /\ Len(tasks) = 2
    /\ tasks[1].done /\ tasks[1].created_at = EarlierTime
    /\ ~tasks[2].done /\ tasks[2].created_at = ImportTime
    /\ load_tasks(file) # <<>>

\* C13: started on a missing file, on invalid JSON, or on JSON with an entry
\* that has no title or has a key that is no field of Task, the application
\* has an empty list, a stopped timer at 300 seconds, and is running.
Unusable(f) ==
    \/ f.kind \in {"missing", "malformed"}
    \/ /\ f.kind = "json"
       /\ \E k \in 1..Len(f.data) :
              "title" \notin DOMAIN f.data[k] \/ "note" \in DOMAIN f.data[k]

C13_BadFileLoadsEmpty ==
    (last.op = "init" /\ Unusable(file)) =>
        /\ tasks = <<>>
        /\ rows = <<>>
        /\ ~active
        /\ seconds_left = REMINDER_SECONDS
        /\ proc = "running"

\* Started on valid JSON whose only entry has a key that Task does not have.
C13_Witness ==
    /\ last.op = "init"
    /\ file.kind = "json"
    /\ Len(file.data) = 1
    /\ "note" \in DOMAIN file.data[1]
    /\ tasks = <<>>
    /\ ~active

\* C14: the process has ended only if the last handler was quit_app, which
\* called save_tasks first (the file holds the list when that write
\* succeeded); after a close request the window is hidden and the process
\* runs; after any other handler the process runs.
C14_OnlyQuitTerminates ==
    /\ last.op # "quit" => proc = "running"
    /\ last.op = "close" => hidden
    /\ proc = "quit" =>
           /\ last.op = "quit"
           /\ eff.write # "none"
           /\ eff.write = "ok" => file = Json(tasks)

\* Quit from the tray menu, with the window closed to the tray and a task
\* pending in mid countdown.
C14_Witness ==
    /\ proc = "quit"
    /\ hidden
    /\ has_pending(tasks)
    /\ seconds_left < REMINDER_SECONDS
    /\ file = Json(tasks)

\* title is one of the pieces of text of body, or a run of them.
Presents(body, title) ==
    \E k \in 0..(Len(body) - Len(title)) :
        \A j \in 1..Len(title) : body[k + j] = title[j]

Fired == last.op = "tick" /\ last.fired

\* C15: a tick that fires does so with the titles of the pending tasks, in
\* list order, and when its reminder is shown the body presents the first
\* five of them, followed past five by the number of the others.
C15_AsStated ==
    Fired =>
        LET pending == pending_titles(tasks)
            body == eff.notice.body
        IN  /\ pending # <<>>
            /\ eff.notice.channel # "none" =>
                   /\ \A k \in 1..Len(pending) :
                          k <= TopShown => Presents(body, pending[k])
                   /\ Len(pending) > TopShown =>
                          Presents(body, <<ToString(Len(pending) - TopShown)>>)

\* C16: when a tick fires and the toast is not shown, the tray balloon shows
\* the same title and body; the tick ends with 300 seconds left, the timer
\* running and the process alive.
C16_AsStated ==
    Fired =>
        /\ eff.notice.toast # "shown" =>
               /\ eff.notice.channel = "tray"
               /\ eff.notice.title = "Task Reminder"
               /\ eff.notice.body = reminder_body(tasks)
        /\ seconds_left = REMINDER_SECONDS
        /\ active
        /\ proc = "running"

\* C17 as stated: every mutation is followed by a re-evaluation of the
\* reminder and by a refresh of the rendered list, after which the rows are
\* the tasks of the list in order, each bound to its task.
C17_AsStated ==
    (last.op \in Mutations /\ eff.write # "none") =>
        /\ active <=> has_pending(tasks)
        /\ eff.rebuilt
        /\ rows = refresh_list(tasks)

\* C17: every mutation is followed by a re-evaluation of the reminder; add,
\* remove and clear_done rebuild the rendered list, toggle does not (its row
\* restyles itself); after every operation the rows are the tasks of the
\* list in order, each bound to its task.
C17_RowsAreTasks ==
    /\ rows = refresh_list(tasks)
    /\ (last.op \in Mutations /\ eff.write # "none") =>
           /\ active <=> has_pending(tasks)
           /\ count_label = update_counter(tasks)
           /\ eff.rebuilt <=> last.op # "toggle"

\* The second of three rows was toggled: no row was rebuilt and the rows are
\* still the tasks in order.
C17_Witness ==
    /\ last.op = "toggle"
    /\ last.row = 2
    /\ ~eff.rebuilt
    /\ Len(tasks) = 3
    /\ tasks[2].done
    /\ rows = refresh_list(tasks)

\* C18: a tick handled with a task pending takes one second off the
\* countdown; it fires exactly when that leaves nothing, and then the
\* countdown is back at 300 with the timer still running; it never changes
\* the task list.
C18_PendingTick ==
    [][(last'.op = "tick" /\ has_pending(tasks)) =>
          LET decremented == seconds_left - 1
          IN  /\ last'.fired <=> decremented <= 0
              /\ decremented <= 0 => seconds_left' = REMINDER_SECONDS
              /\ decremented > 0 => seconds_left' = decremented
              /\ active /\ active'
              /\ tasks' = tasks]_vars

\* A tick fired with a done task ahead of the pending ones.
C18_Witness ==
    /\ last.op = "tick"
    /\ last.fired
    /\ active
    /\ Len(tasks) = 3
    /\ tasks[1].done
    /\ ~tasks[3].done

\* C19: a toggle, remove or clear_done made while the timer runs and that
\* leaves a task pending keeps seconds_left and keeps the timer running; a
\* mutation that leaves a task pending changes seconds_left only if it is an
\* add or the timer was stopped.
C19_CountdownKept ==
    [][(last'.op \in Mutations /\ has_pending(tasks')) =>
          /\ (last'.op # "add" /\ active) =>
                 (seconds_left' = seconds_left /\ active')
          /\ seconds_left' # seconds_left =>
                 ((last'.op = "add" /\ nextId' # nextId) \/ ~active)]_vars

\* A task was removed in mid countdown while another stayed pending.
C19_Witness ==
    /\ last.op = "remove"
    /\ last.was = "mid"
    /\ has_pending(tasks)
    /\ active
    /\ seconds_left < REMINDER_SECONDS

FailedWrites == SaveOutcomes \ {"ok"}

\* C20: a mutation whose write fails is applied to the list in memory and
\* ends with the timer running iff a task is pending, the counter and the
\* rows up to date and the process running; the file is left as the failed
\* write left it until the next mutation or quit writes again.
C20_WriteFailureAbsorbed ==
    [][/\ (last'.op \in Mutations /\ eff'.write \in FailedWrites) =>
             /\ last'.op = "add" =>
                    tasks' = Append(tasks, Task(nextId, strip(last'.text)))
             /\ last'.op = "toggle" =>
                    tasks' = [tasks EXCEPT ![last'.row].done = ~@]
             /\ last'.op = "remove" => tasks' = WithoutIndex(tasks, last'.row)
             /\ last'.op = "clear_done" =>
                    tasks' = SelectSeq(tasks, LAMBDA t : ~t.done)
             /\ active' <=> has_pending(tasks')
             /\ count_label' = update_counter(tasks')
             /\ rows' = refresh_list(tasks')
             /\ proc' = "running"
             /\ file' \in {file, Malformed}
       /\ eff'.write = "none" => file' = file]_vars

\* The first task was added to an empty list and its write failed: the task
\* is in the list, the timer runs, the file is as it was.
C20_Witness ==
    /\ last.op = "add"
    /\ last.len = 0
    /\ eff.write = "open_failed"
    /\ Len(tasks) = 1
    /\ active
    /\ file = Missing

====
